---- MODULE Spec2Model ----
(***************************************************************************)
(* Model of the document redaction service (src/api.py) and of its        *)
(* command-line companion (src/main.py).                                  *)
(*                                                                         *)
(* A text is a sequence of one-character strings.  A confidence score is  *)
(* an integer number of hundredths (0.8 is 80).  A run is one HTTP        *)
(* request of the service or one invocation of the command-line script.   *)
(***************************************************************************)
EXTENDS Integers, Sequences, FiniteSets

(***************************************************************************)
(* Bounds of the model.                                                    *)
(***************************************************************************)
\* max_chunk_size is 5000 in the source (src/api.py:75, src/main.py:64);
\* the model scales the budget down so that short texts exceed it.
max_chunk_size == 4
\* Longest text drawn as input of the chunker alone.
MaxLen == 9
\* Longest text drawn as input of one analysis.
MaxTextLen == 5
\* Most entities the remote service reports for one document.
MaxEntities == 2
\* Most pages of an uploaded PDF.
MaxPages == 2
\* Number of runs that may be in progress at the same time.
NReq == 2

(***************************************************************************)
(* Strings.                                                                *)
(***************************************************************************)
SP == " "
NL == "\n"
Whitespace == {SP, NL}

\* All texts of at most n characters over the alphabet A.
Texts(A, n) == UNION {[1..k -> A] : k \in 0..n}

RECURSIVE SplitFrom(_, _, _, _)
SplitFrom(text, i, word, words) ==
    IF i > Len(text)
    THEN IF word = <<>> THEN words ELSE Append(words, word)
    ELSE IF text[i] \in Whitespace
         THEN SplitFrom(text, i + 1, <<>>,
                        IF word = <<>> THEN words ELSE Append(words, word))
         ELSE SplitFrom(text, i + 1, Append(word, text[i]), words)

\* str.split(): the maximal runs of non-whitespace characters, in order.
split(text) == SplitFrom(text, 1, <<>>, <<>>)

RECURSIVE join(_, _)
\* sep.join(parts)
join(sep, parts) ==
    IF parts = <<>> THEN <<>>
    ELSE IF Len(parts) = 1 THEN parts[1]
    ELSE parts[1] \o sep \o join(sep, Tail(parts))

\* str.strip(): the text without its leading and trailing whitespace.
strip(text) ==
    LET keep == {i \in 1..Len(text) : text[i] \notin Whitespace}
    IN  IF keep = {} THEN <<>>
        ELSE LET lo == CHOOSE i \in keep : \A j \in keep : i <= j
                 hi == CHOOSE i \in keep : \A j \in keep : j <= i
             IN  SubSeq(text, lo, hi)

\* str.endswith(suffix)
endswith(text, suffix) ==
    /\ Len(text) >= Len(suffix)
    /\ SubSeq(text, Len(text) - Len(suffix) + 1, Len(text)) = suffix

(***************************************************************************)
(* The chunker: analyze_pii_in_text, src/api.py:75-97 (the same code is   *)
(* in pii_recognition_example, src/main.py:64-86).                        *)
(***************************************************************************)
\* word_length = len(word) + 1
word_length_nospace(word) == Len(word)
word_length(word) == Len(word) + 1

\* current_chunk = [word], after the full chunk was appended to chunks
start_chunk_empty(word) == <<>>
start_chunk(word) == <<word>>

RECURSIVE PackWords(_, _, _, _, _)
\* The loop over words, from word i on, and the final flush.
PackWords(words, i, chunks, current_chunk, current_length) ==
    IF i > Len(words)
    THEN IF current_chunk # <<>>
         THEN Append(chunks, join(<<SP>>, current_chunk))
         ELSE chunks
    ELSE LET word == words[i]
         IN  IF /\ current_length + word_length(word) > max_chunk_size
                /\ current_chunk # <<>>
             THEN PackWords(words, i + 1,
                            Append(chunks, join(<<SP>>, current_chunk)),
                            start_chunk(word), word_length(word))
             ELSE PackWords(words, i + 1, chunks,
                            Append(current_chunk, word),
                            current_length + word_length(word))

\* The chunks of text_content.
split_chunks(text_content) ==
    IF Len(text_content) <= max_chunk_size
    THEN <<text_content>>
    ELSE PackWords(split(text_content), 1, <<>>, <<>>, 0)

(***************************************************************************)
(* The remote PII service, as seen by its callers: one result per         *)
(* document of the call, either a per-document error or the document's    *)
(* entities and redacted text.  An entity is modelled by the one field    *)
(* the aggregation reads, its confidence score.                           *)
(***************************************************************************)
\* Scores around the two thresholds, and the scores 0.95, 0.7 and 0.4.
Scores == {40, 60, 70, 80, 95}

EntityLists(S, n) ==
    UNION {[1..k -> [confidence_score : S]] : k \in 0..n}

\* The redacted text of a document: its PII masked, when it holds any.
Mask(document) ==
    [k \in 1..Len(document) |->
        IF document[k] \in Whitespace THEN document[k] ELSE "*"]

DocumentError == [is_error |-> TRUE]

RecognizePiiEntitiesResult(document, entities) ==
    [is_error |-> FALSE,
     redacted_text |-> IF entities = <<>> THEN document ELSE Mask(document),
     entities |-> entities]

\* What a service S may answer for one document: S.entity_lists are the
\* entity lists it may report, S.errors tells whether it may report a
\* per-document error.
DocResults(document, S) ==
    (IF S.errors THEN {DocumentError} ELSE {})
    \cup {RecognizePiiEntitiesResult(document, e) : e \in S.entity_lists}

RECURSIVE Responses(_, _)
\* What the service may answer to one call: a result for every document.
Responses(documents, S) ==
    IF documents = <<>> THEN {<<>>}
    ELSE {<<doc>> \o rest : doc \in DocResults(documents[1], S),
                            rest \in Responses(Tail(documents), S)}

(***************************************************************************)
(* The aggregation: analyze_pii_in_text, src/api.py:99-131.               *)
(***************************************************************************)
Levels == {"high", "medium", "low"}

\* confidence_summary = {}
EmptySummary == [l \in {} |-> 0]

\* "high" if score >= 0.8 else "medium" if score >= 0.6 else "low"
confidence_level_strict(confidence_score) ==
    IF confidence_score > 80 THEN "high"
    ELSE IF confidence_score > 60 THEN "medium" ELSE "low"
confidence_level(confidence_score) ==
    IF confidence_score >= 80 THEN "high"
    ELSE IF confidence_score >= 60 THEN "medium" ELSE "low"

\* dict.get(key, default)
get(dict, key, default) == IF key \in DOMAIN dict THEN dict[key] ELSE default

\* confidence_summary[level] = confidence_summary.get(level, 0) + 1
count_level_once(confidence_summary, level) ==
    [l \in DOMAIN confidence_summary \cup {level} |->
        IF l = level THEN 1 ELSE confidence_summary[l]]
count_level(confidence_summary, level) ==
    [l \in DOMAIN confidence_summary \cup {level} |->
        IF l = level THEN get(confidence_summary, level, 0) + 1
        ELSE confidence_summary[l]]

\* One round of the loop over doc.entities.
add_entity(acc, entity) ==
    [acc EXCEPT
        !.confidence_summary =
            count_level(@, confidence_level(entity.confidence_score)),
        !.all_entities = Append(@, entity)]

RECURSIVE add_entities(_, _)
add_entities(acc, entities) ==
    IF entities = <<>> THEN acc
    ELSE add_entities(add_entity(acc, entities[1]), Tail(entities))

\* redacted_text = doc.redacted_text
record_redacted_merged(redacted_text, doc) == redacted_text \o doc.redacted_text
record_redacted(redacted_text, doc) == doc.redacted_text

\* One round of the loop over the response's documents.
process_doc_reset(acc, doc) ==
    IF ~doc.is_error
    THEN add_entities(
            [acc EXCEPT !.redacted_text = record_redacted(@, doc)],
            doc.entities)
    ELSE [acc EXCEPT !.all_entities = <<>>, !.confidence_summary = EmptySummary]
process_doc(acc, doc) ==
    IF ~doc.is_error
    THEN add_entities(
            [acc EXCEPT !.redacted_text = record_redacted(@, doc)],
            doc.entities)
    ELSE acc

RECURSIVE process_response(_, _)
process_response(acc, response) ==
    IF response = <<>> THEN acc
    ELSE process_response(process_doc(acc, response[1]), Tail(response))

\* The documents of the call for chunk number k: [chunk]
call_documents_first(chunks, k) == <<chunks[1]>>
call_documents(chunks, k) == <<chunks[k]>>

\* The response model; processing_time is wall-clock time and is left out.
PIIAnalysisResponse(acc) ==
    [entities |-> acc.all_entities,
     redacted_text |-> acc.redacted_text,
     total_entities |-> Len(acc.all_entities),
     confidence_summary |-> acc.confidence_summary]

NoResult == [none |-> TRUE]

(***************************************************************************)
(* State.                                                                  *)
(***************************************************************************)
Reqs == 1..NReq

VARIABLES
    rq,        \* rq[r]: the locals and the position of run r
    clients,   \* clients[c]: "open" or "closed", for every client constructed
    tmpfiles   \* tmpfiles[p]: "on_disk" or "unlinked", for every temporary file created

vars == <<rq, clients, tmpfiles>>

Idle ==
    [pc |-> "idle", kind |-> "none", status |-> 0, result |-> NoResult,
     client |-> 0, created |-> 0, tmp_path |-> 0,
     doc |-> "none", total_pages |-> 0,
     text_content |-> <<>>, chunks |-> <<>>, i |-> 0,
     acc |-> [all_entities |-> <<>>, redacted_text |-> <<>>,
              confidence_summary |-> EmptySummary],
     inflight |-> <<>>, calls |-> <<>>, responses |-> <<>>,
     raised |-> FALSE]

(***************************************************************************)
(* analyze_pii_in_text(client, text_content), src/api.py:68-134.          *)
(***************************************************************************)
\* Lines 75-101: the chunks, and the empty aggregate.
analyze_split(r) ==
    /\ rq[r].pc = "analyze"
    /\ rq' = [rq EXCEPT ![r] =
                [@ EXCEPT !.pc = "loop",
                          !.chunks = split_chunks(rq[r].text_content),
                          !.i = 0,
                          !.acc = [all_entities |-> <<>>,
                                   redacted_text |-> rq[r].text_content,
                                   confidence_summary |-> EmptySummary]]]
    /\ UNCHANGED <<clients, tmpfiles>>

\* Line 104: the call for the next chunk is sent, and the run waits for it.
issue_call(r) ==
    /\ rq[r].pc = "loop"
    /\ rq[r].i < Len(rq[r].chunks)
    /\ LET documents == call_documents(rq[r].chunks, rq[r].i + 1)
       IN  rq' = [rq EXCEPT ![r] =
                    [@ EXCEPT !.pc = "await_call",
                              !.inflight = <<documents>>,
                              !.calls = Append(@, [documents |-> documents,
                                                   client |-> rq[r].client])]]
    /\ UNCHANGED <<clients, tmpfiles>>

\* Lines 104-121: the call returns and its documents are aggregated.
call_returns(r, S) ==
    /\ rq[r].pc = "await_call"
    /\ rq[r].kind # "cli"
    /\ \E response \in Responses(rq[r].inflight[1], S) :
         rq' = [rq EXCEPT ![r] =
                  [@ EXCEPT !.pc = "loop",
                            !.inflight = <<>>,
                            !.i = @ + 1,
                            !.responses = Append(@, response),
                            !.acc = process_response(@, response)]]
    /\ UNCHANGED <<clients, tmpfiles>>

\* Lines 104, 133-134: the call raises, which becomes an HTTP 500; the
\* handler's finally blocks run next.
call_raises(r) ==
    /\ rq[r].pc = "await_call"
    /\ rq[r].kind # "cli"
    /\ rq' = [rq EXCEPT ![r] =
                [@ EXCEPT !.pc = "closing",
                          !.inflight = <<>>,
                          !.raised = TRUE,
                          !.status = 500]]
    /\ UNCHANGED <<clients, tmpfiles>>

\* Lines 123-131: every chunk is done, the response is built.
analyze_return(r) ==
    /\ rq[r].pc = "loop"
    /\ rq[r].i = Len(rq[r].chunks)
    /\ rq' = [rq EXCEPT ![r] =
                [@ EXCEPT !.pc = "closing",
                          !.status = 200,
                          !.result = PIIAnalysisResponse(rq[r].acc)]]
    /\ UNCHANGED <<clients, tmpfiles>>

(***************************************************************************)
(* Resources: the remote service clients and the temporary files.         *)
(***************************************************************************)
\* authenticate_client(): a new client, src/api.py:60-66, src/main.py:20-25
authenticate_client_shared(cl) ==
    IF cl = <<>> THEN [clients |-> <<"open">>, client |-> 1]
    ELSE [clients |-> cl, client |-> 1]
authenticate_client(cl) ==
    [clients |-> Append(cl, "open"), client |-> Len(cl) + 1]

\* await client.close()
close_skipped(cl, client) == cl
close(cl, client) == [cl EXCEPT ![client] = "closed"]

\* tempfile.NamedTemporaryFile(delete=False, suffix='.pdf'): a new file on disk
NamedTemporaryFile(files) ==
    [tmpfiles |-> Append(files, "on_disk"), name |-> Len(files) + 1]

\* os.unlink(tmp_path)
unlink(files, tmp_path) == [files EXCEPT ![tmp_path] = "unlinked"]

(***************************************************************************)
(* PDF text extraction: analyze_pdf, src/api.py:170-181, and              *)
(* extract_text_from_pdf, src/main.py:28-50.                              *)
(***************************************************************************)
PageBreak ==
    <<NL, NL, "-", "-", "-", SP, "P", "a", "g", "e", SP, "B", "r", "e",
      "a", "k", SP, "-", "-", "-", NL, NL>>

\* A PDF, as fitz sees it: whether it opens, and for each page either its
\* text or a failure of load_page / get_text.
PageTexts == {<<>>, <<SP>>, <<"a">>}
PageResults ==
    {[ok |-> FALSE, text |-> <<>>]} \cup {[ok |-> TRUE, text |-> t] : t \in PageTexts}
Pdfs ==
    [can_open : BOOLEAN,
     pages : UNION {[1..n -> PageResults] : n \in 0..MaxPages}]

RECURSIVE extract_pages(_, _, _)
\* The loop over the pages, from page page_num on (pages are numbered
\* from 0): the non-empty page texts, unless a page fails.
extract_pages(pages, page_num, text_content) ==
    IF page_num >= Len(pages) THEN [failed |-> FALSE, text_content |-> text_content]
    ELSE LET page == pages[page_num + 1]
         IN  IF ~page.ok THEN [failed |-> TRUE, text_content |-> text_content]
             ELSE extract_pages(pages, page_num + 1,
                                IF strip(page.text) # <<>>
                                THEN Append(text_content, page.text)
                                ELSE text_content)

\* fitz.open ... doc.close() ... join: the state the document is left in
\* ("none" when it never opened), whether the extraction raised, the page
\* count and the joined text.
extract_text(pdf) ==
    IF ~pdf.can_open
    THEN [doc |-> "none", raised |-> TRUE, total_pages |-> 0, full_text |-> <<>>]
    ELSE LET walk == extract_pages(pdf.pages, 0, <<>>)
         IN  IF walk.failed
             THEN [doc |-> "open", raised |-> TRUE,
                   total_pages |-> Len(pdf.pages), full_text |-> <<>>]
             ELSE [doc |-> "closed", raised |-> FALSE,
                   total_pages |-> Len(pdf.pages),
                   full_text |-> join(PageBreak, walk.text_content)]

(***************************************************************************)
(* POST /analyze-text: analyze_text, src/api.py:140-148.                  *)
(***************************************************************************)
\* Line 143: the client is constructed and the analysis is entered.
analyze_text_begin(r, T) ==
    /\ rq[r].pc = "idle"
    /\ \E text \in T :
         LET auth == authenticate_client(clients)
         IN  /\ clients' = auth.clients
             /\ rq' = [rq EXCEPT ![r] =
                         [@ EXCEPT !.pc = "analyze",
                                   !.kind = "analyze_text",
                                   !.client = auth.client,
                                   !.text_content = text]]
    /\ UNCHANGED tmpfiles

\* The finally blocks of the handlers (src/api.py:147-148, 202-207): the
\* client is closed and, for a PDF, the temporary file is removed.
handler_finally(r) ==
    /\ rq[r].pc = "closing"
    /\ rq[r].kind \in {"analyze_text", "analyze_pdf"}
    /\ clients' = close(clients, rq[r].client)
    /\ tmpfiles' = IF rq[r].kind = "analyze_pdf"
                   THEN unlink(tmpfiles, rq[r].tmp_path)
                   ELSE tmpfiles
    /\ rq' = [rq EXCEPT ![r] = [@ EXCEPT !.pc = "done"]]

(***************************************************************************)
(* POST /analyze-pdf: analyze_pdf, src/api.py:150-207.                    *)
(***************************************************************************)
DotPdf == <<".", "p", "d", "f">>
Filenames == {<<"a">> \o DotPdf, <<"a", ".", "t", "x", "t">>}

\* Lines 156-164: the filename check, then the temporary file is created
\* and the upload is being read.
analyze_pdf_begin(r) ==
    /\ rq[r].pc = "idle"
    /\ \E filename \in Filenames :
         IF ~endswith(filename, DotPdf)
         THEN /\ rq' = [rq EXCEPT ![r] =
                          [@ EXCEPT !.pc = "done",
                                    !.kind = "analyze_pdf",
                                    !.raised = TRUE,
                                    !.status = 400]]
              /\ UNCHANGED tmpfiles
         ELSE LET tmp_file == NamedTemporaryFile(tmpfiles)
              IN  /\ tmpfiles' = tmp_file.tmpfiles
                  /\ rq' = [rq EXCEPT ![r] =
                              [@ EXCEPT !.pc = "read_upload",
                                        !.kind = "analyze_pdf",
                                        !.created = tmp_file.name]]
    /\ UNCHANGED clients

\* Lines 163-166: reading the upload or writing it to the temporary file
\* raises; the with block closes the file, which was created with
\* delete=False, and the exception leaves the handler before its try.
upload_fails(r) ==
    /\ rq[r].pc = "read_upload"
    /\ rq' = [rq EXCEPT ![r] =
                [@ EXCEPT !.pc = "done", !.raised = TRUE, !.status = 500]]
    /\ UNCHANGED <<clients, tmpfiles>>

\* Lines 164-187: the upload is saved and its text extracted; a failure or
\* an empty text ends the request through the finally at lines 205-207,
\* otherwise the client is constructed and the analysis is entered.
upload_saved(r, P) ==
    /\ rq[r].pc = "read_upload"
    /\ \E pdf \in P :
         LET tmp_path == rq[r].created
             ex == extract_text(pdf)
             auth == authenticate_client(clients)
         IN  IF ex.raised \/ strip(ex.full_text) = <<>>
             THEN /\ tmpfiles' = unlink(tmpfiles, tmp_path)
                  /\ rq' = [rq EXCEPT ![r] =
                              [@ EXCEPT !.pc = "done",
                                        !.tmp_path = tmp_path,
                                        !.doc = ex.doc,
                                        !.total_pages = ex.total_pages,
                                        !.raised = TRUE,
                                        !.status = IF ex.raised THEN 500 ELSE 400]]
                  /\ UNCHANGED clients
             ELSE /\ clients' = auth.clients
                  /\ rq' = [rq EXCEPT ![r] =
                              [@ EXCEPT !.pc = "analyze",
                                        !.tmp_path = tmp_path,
                                        !.doc = ex.doc,
                                        !.total_pages = ex.total_pages,
                                        !.client = auth.client,
                                        !.text_content = ex.full_text]]
                  /\ UNCHANGED tmpfiles

(***************************************************************************)
(* The command-line script: main and pii_recognition_example,             *)
(* src/main.py:54-153.                                                     *)
(***************************************************************************)
DefaultDocuments ==
    <<
    <<"T", "h", "e", "e", "m", "p", "l", "o", "y", "e", "e", "'", "s", SP,
      "S", "S", "N", SP, "i", "s", SP, "8", "5", "9", "-", "9", "8", "-",
      "0", "9", "8", "7", ".">>,
    <<"T", "h", "e", SP, "e", "m", "p", "l", "o", "y", "e", "e", "'", "s",
      SP, "p", "h", "o", "n", "e", SP, "n", "u", "m", "b", "e", "r", SP,
      "i", "s", SP, "5", "5", "5", "-", "5", "5", "5", "-", "5", "5", "5",
      "5", ".">>
    >>

\* Lines 62-94: documents = chunks of the text, or the default examples.
example_documents(given, text_content) ==
    IF given /\ text_content # <<>>
    THEN split_chunks(text_content)
    ELSE DefaultDocuments

\* sys.argv: no argument, a path that does not exist, or a PDF.
Argvs(P) ==
    {[given |-> FALSE, exists |-> FALSE, pdf |-> p] :
        p \in {[can_open |-> FALSE, pages |-> <<>>]}}
    \cup {[given |-> TRUE, exists |-> FALSE, pdf |-> p] :
        p \in {[can_open |-> FALSE, pages |-> <<>>]}}
    \cup {[given |-> TRUE, exists |-> TRUE, pdf |-> p] : p \in P}

\* Lines 124-149 and 62-98: the client is constructed; with a PDF whose
\* text is extracted, or with no argument, one call is sent that carries
\* every document; otherwise main returns through its finally.
main_begin(r, P) ==
    /\ rq[r].pc = "idle"
    /\ \E argv \in Argvs(P) :
         LET auth == authenticate_client(clients)
             ex == extract_text(argv.pdf)
             \* extract_text_from_pdf returns None when it raised
             pdf_text == IF ex.raised THEN <<>> ELSE ex.full_text
             calls_service == ~argv.given \/ (argv.exists /\ pdf_text # <<>>)
             documents == example_documents(argv.given, pdf_text)
         IN  /\ clients' = auth.clients
             /\ rq' = [rq EXCEPT ![r] =
                         [@ EXCEPT
                            !.kind = "cli",
                            !.client = auth.client,
                            !.doc = IF argv.given /\ argv.exists
                                    THEN ex.doc ELSE "none",
                            !.text_content = IF argv.given /\ argv.exists
                                             THEN pdf_text ELSE <<>>,
                            !.chunks = IF calls_service /\ argv.given
                                       THEN documents ELSE <<>>,
                            !.pc = IF calls_service THEN "await_call"
                                   ELSE "closing",
                            !.inflight = IF calls_service THEN <<documents>>
                                         ELSE <<>>,
                            !.calls = IF calls_service
                                      THEN <<[documents |-> documents,
                                              client |-> auth.client]>>
                                      ELSE <<>>]]
    /\ UNCHANGED tmpfiles

RECURSIVE count_entities(_)
\* Lines 99-119: the entities of the documents that did not error.
count_entities(response) ==
    IF response = <<>> THEN 0
    ELSE (IF response[1].is_error THEN 0 ELSE Len(response[1].entities))
         + count_entities(Tail(response))

\* Lines 98-119: the call returns and the entities are counted.
main_call_returns(r, S) ==
    /\ rq[r].pc = "await_call"
    /\ rq[r].kind = "cli"
    /\ \E response \in Responses(rq[r].inflight[1], S) :
         rq' = [rq EXCEPT ![r] =
                  [@ EXCEPT !.pc = "closing",
                            !.inflight = <<>>,
                            !.responses = Append(@, response),
                            !.result = [total_entities_found |->
                                            count_entities(response)]]]
    /\ UNCHANGED <<clients, tmpfiles>>

\* Line 98: the call raises and the exception leaves main through its finally.
main_call_raises(r) ==
    /\ rq[r].pc = "await_call"
    /\ rq[r].kind = "cli"
    /\ rq' = [rq EXCEPT ![r] =
                [@ EXCEPT !.pc = "closing", !.inflight = <<>>, !.raised = TRUE]]
    /\ UNCHANGED <<clients, tmpfiles>>

\* Lines 152-153: the finally of main closes the client.
main_finally(r) ==
    /\ rq[r].pc = "closing"
    /\ rq[r].kind = "cli"
    /\ clients' = close(clients, rq[r].client)
    /\ rq' = [rq EXCEPT ![r] = [@ EXCEPT !.pc = "done"]]
    /\ UNCHANGED tmpfiles

(***************************************************************************)
(* Specifications.                                                         *)
(***************************************************************************)
Start ==
    /\ rq = [r \in Reqs |-> Idle]
    /\ clients = <<>>
    /\ tmpfiles = <<>>

\* The texts posted to /analyze-text in the specifications of the program.
FewTexts == {<<"a">>, <<"a", SP, "a", "a", "a", "a">>}

\* A service that finds no entity and reports no per-document error.
QuietService == [entity_lists |-> {<<>>}, errors |-> FALSE]
\* A service that finds no entity and may report per-document errors.
PlainService == [entity_lists |-> {<<>>}, errors |-> TRUE]

\* The PDFs of at most one page.
ShortPdfs == {pdf \in Pdfs : Len(pdf.pages) <= 1}

\* The service and the script, with NReq runs in progress at the same time,
\* interleaved at their suspension points; the PDFs have at most one page.
Init == Start

Next ==
    \E r \in Reqs :
        \/ analyze_text_begin(r, FewTexts)
        \/ analyze_pdf_begin(r)
        \/ upload_fails(r)
        \/ upload_saved(r, ShortPdfs)
        \/ analyze_split(r)
        \/ issue_call(r)
        \/ call_returns(r, QuietService)
        \/ call_raises(r)
        \/ analyze_return(r)
        \/ handler_finally(r)
        \/ main_begin(r, ShortPdfs)
        \/ main_call_returns(r, QuietService)
        \/ main_call_raises(r)
        \/ main_finally(r)

Spec == Init /\ [][Next]_vars

\* One run of the service or of the script, with PDFs of up to MaxPages pages.
InitRun == Start

NextRun ==
    \/ analyze_text_begin(1, FewTexts)
    \/ analyze_pdf_begin(1)
    \/ upload_fails(1)
    \/ upload_saved(1, Pdfs)
    \/ analyze_split(1)
    \/ issue_call(1)
    \/ call_returns(1, PlainService)
    \/ call_raises(1)
    \/ analyze_return(1)
    \/ handler_finally(1)
    \/ main_begin(1, Pdfs)
    \/ main_call_returns(1, PlainService)
    \/ main_call_raises(1)
    \/ main_finally(1)

SpecRun == InitRun /\ [][NextRun]_vars

\* One analysis, of any text and with every answer of the service.
AnyService == [entity_lists |-> EntityLists(Scores, MaxEntities), errors |-> TRUE]
AnalyzeTexts == Texts({"a", SP}, MaxTextLen)

InitAnalyze == Start

NextAnalyze ==
    \/ analyze_text_begin(1, AnalyzeTexts)
    \/ analyze_split(1)
    \/ issue_call(1)
    \/ call_returns(1, AnyService)
    \/ call_raises(1)
    \/ analyze_return(1)
    \/ handler_finally(1)

SpecAnalyze == InitAnalyze /\ [][NextAnalyze]_vars

\* The chunker alone, on every text over a letter and two kinds of whitespace.
ChunkTexts == Texts({"a", SP, NL}, MaxLen)

InitChunk ==
    /\ \E text \in ChunkTexts :
         rq = [r \in Reqs |->
                 IF r = 1
                 THEN [Idle EXCEPT !.pc = "analyze", !.kind = "chunker",
                                   !.text_content = text]
                 ELSE Idle]
    /\ clients = <<>>
    /\ tmpfiles = <<>>

NextChunk == analyze_split(1)

SpecChunk == InitChunk /\ [][NextChunk]_vars

(***************************************************************************)
(* Helpers of the properties.                                              *)
(***************************************************************************)
RECURSIVE Concat(_)
\* The concatenation of a sequence of sequences.
Concat(seqs) == IF seqs = <<>> THEN <<>> ELSE seqs[1] \o Concat(Tail(seqs))

RECURSIVE SumOver(_, _)
\* The sum of the counts of a summary over the levels in D.
SumOver(summary, D) ==
    IF D = {} THEN 0
    ELSE LET l == CHOOSE x \in D : TRUE
         IN  summary[l] + SumOver(summary, D \ {l})
SumCounts(summary) == SumOver(summary, DOMAIN summary)

\* The results a run received, one per document, in order.
Received(r) == Concat(rq[r].responses)

RECURSIVE EntitiesOfOk(_)
\* The entities of the documents that did not error, in order.
EntitiesOfOk(docs) ==
    IF docs = <<>> THEN <<>>
    ELSE (IF docs[1].is_error THEN <<>> ELSE docs[1].entities)
         \o EntitiesOfOk(Tail(docs))

RECURSIVE LastRedacted(_, _)
\* The redacted text of the last document that did not error, or
\* otherwise when every document errored.
LastRedacted(docs, otherwise) ==
    IF docs = <<>> THEN otherwise
    ELSE IF ~docs[Len(docs)].is_error THEN docs[Len(docs)].redacted_text
    ELSE LastRedacted(SubSeq(docs, 1, Len(docs) - 1), otherwise)

\* The number of entities whose score lies in lo..hi.
CountIn(entities, lo, hi) ==
    Cardinality({k \in 1..Len(entities) :
                    /\ entities[k].confidence_score >= lo
                    /\ entities[k].confidence_score <= hi})

Chunked(r) == rq[r].pc = "loop" /\ Len(rq[r].text_content) > max_chunk_size
Http(r) == rq[r].kind \in {"analyze_text", "analyze_pdf"}
Answered(r) == Http(r) /\ rq[r].status = 200

(***************************************************************************)
(* Properties.                                                             *)
(***************************************************************************)
\* C1: for a text longer than max_chunk_size, the chunks joined with single
\* spaces and split on whitespace again are the words of the text, in order,
\* and so are the words of the chunks taken one chunk after the other (no
\* word is cut by a chunk boundary, dropped or repeated).
C1_ChunksKeepWords ==
    \A r \in Reqs :
        Chunked(r) =>
            LET chunks == rq[r].chunks
                words == split(rq[r].text_content)
            IN  /\ split(join(<<SP>>, chunks)) = words
                /\ Concat([k \in 1..Len(chunks) |-> split(chunks[k])]) = words

\* C1 witness: a text with both kinds of whitespace was cut into three chunks.
C1_Witness ==
    \E r \in Reqs :
        /\ Chunked(r)
        /\ Len(rq[r].chunks) >= 3
        /\ \E k \in 1..Len(rq[r].text_content) : rq[r].text_content[k] = NL

\* C2: for a text longer than max_chunk_size, a chunk has at most
\* max_chunk_size characters unless it is one word longer than that, and a
\* word longer than max_chunk_size is the only word of its chunk.
C2_ChunksWithinBudget ==
    \A r \in Reqs :
        Chunked(r) =>
            \A k \in 1..Len(rq[r].chunks) :
                LET chunk == rq[r].chunks[k]
                    words == split(chunk)
                IN  /\ \/ Len(chunk) <= max_chunk_size
                       \/ /\ words = <<chunk>>
                          /\ Len(chunk) > max_chunk_size
                    /\ \A j \in 1..Len(words) :
                           Len(words[j]) > max_chunk_size => Len(words) = 1

\* C2 witness: a text was cut into several chunks, one of them an oversize
\* word and another one holding two words.
C2_Witness ==
    \E r \in Reqs :
        /\ Chunked(r)
        /\ \E k \in 1..Len(rq[r].chunks) : Len(rq[r].chunks[k]) > max_chunk_size
        /\ \E k \in 1..Len(rq[r].chunks) : Len(split(rq[r].chunks[k])) = 2

\* C3: at every point between two calls of the aggregation, and in every
\* response, the bucket counts sum to the number of entities collected, and
\* a response's total_entities is the length of its entity list.
C3_CountsSumToTotal ==
    \A r \in Reqs :
        /\ SumCounts(rq[r].acc.confidence_summary) = Len(rq[r].acc.all_entities)
        /\ Answered(r) =>
              /\ SumCounts(rq[r].result.confidence_summary)
                    = rq[r].result.total_entities
              /\ rq[r].result.total_entities = Len(rq[r].result.entities)

\* C3 witness: a response with two entities in different buckets, returned
\* after a chunk that errored and one that did not.
C3_Witness ==
    \E r \in Reqs :
        /\ Answered(r)
        /\ rq[r].result.total_entities = 2
        /\ Cardinality(DOMAIN rq[r].result.confidence_summary) = 2
        /\ \E k \in 1..Len(Received(r)) : Received(r)[k].is_error

\* C5: the entities collected are those of exactly the chunks that did not
\* error, in order; no chunk is sent twice; and once every chunk has been
\* answered, with or without per-document errors, the request succeeds with
\* total_entities counting those entities.
C5_ErroredChunkAbsorbed ==
    \A r \in Reqs :
        Http(r) =>
            /\ rq[r].acc.all_entities = EntitiesOfOk(Received(r))
            /\ SumCounts(rq[r].acc.confidence_summary)
                  = Len(EntitiesOfOk(Received(r)))
            /\ Len(rq[r].calls) <= Len(rq[r].chunks)
            /\ \A k \in 1..Len(rq[r].calls) :
                   rq[r].calls[k].documents = <<rq[r].chunks[k]>>
            /\ (rq[r].pc \in {"closing", "done"}
                    /\ Len(rq[r].responses) = Len(rq[r].chunks))
                  => /\ rq[r].status = 200
                     /\ rq[r].result.total_entities
                           = Len(EntitiesOfOk(Received(r)))

\* C5 witness: a request succeeded whose first chunk gave an entity and
\* whose second chunk errored.
C5_Witness ==
    \E r \in Reqs :
        /\ Answered(r)
        /\ Len(Received(r)) >= 2
        /\ ~Received(r)[1].is_error
        /\ Received(r)[1].entities # <<>>
        /\ Received(r)[2].is_error

\* C6 as claimed: the redacted_text of a response for n >= 1 chunks is the
\* redacted text returned for the last chunk.
C6_LastChunkRedacted ==
    \A r \in Reqs :
        (Answered(r) /\ Len(rq[r].chunks) >= 1) =>
            LET last == Received(r)[Len(Received(r))]
            IN  /\ ~last.is_error
                /\ rq[r].result.redacted_text = last.redacted_text

\* C6 amended: the redacted_text of a response is the redacted text returned
\* for the last chunk that did not error, and the text as it was given when
\* every chunk errored (or there is no chunk); redacted texts are not merged.
C6_LastOkChunkRedacted ==
    \A r \in Reqs :
        /\ Http(r) /\ rq[r].pc = "loop" =>
              rq[r].acc.redacted_text
                 = LastRedacted(Received(r), rq[r].text_content)
        /\ Answered(r) =>
              rq[r].result.redacted_text
                 = LastRedacted(Received(r), rq[r].text_content)

\* C6 witness: a response for two chunks, the first returned masked and the
\* second returned as it was: the response holds the second chunk only.
C6_Witness ==
    \E r \in Reqs :
        /\ Answered(r)
        /\ Len(Received(r)) = 2
        /\ ~Received(r)[1].is_error /\ Received(r)[1].entities # <<>>
        /\ ~Received(r)[2].is_error /\ Received(r)[2].entities = <<>>
        /\ rq[r].result.redacted_text = rq[r].chunks[2]
        /\ rq[r].result.redacted_text # Received(r)[1].redacted_text

\* C7: each bucket counts the collected entities whose score is in its
\* range: high from 0.8, medium from 0.6 to below 0.8, low below 0.6; a
\* bucket without entity is absent.
C7_BucketsByThreshold ==
    \A r \in Reqs :
        LET summary == rq[r].acc.confidence_summary
            entities == rq[r].acc.all_entities
        IN  /\ DOMAIN summary \subseteq Levels
            /\ get(summary, "high", 0) = CountIn(entities, 80, 100)
            /\ get(summary, "medium", 0) = CountIn(entities, 60, 79)
            /\ get(summary, "low", 0) = CountIn(entities, 0, 59)
            /\ Answered(r) =>
                  /\ rq[r].result.confidence_summary = summary
                  /\ rq[r].result.entities = entities

\* C7 witness: the scores 0.95, 0.7 and 0.4 gave one entity in each bucket.
C7_Witness ==
    \E r \in Reqs :
        /\ Answered(r)
        /\ [k \in 1..Len(rq[r].result.entities) |->
               rq[r].result.entities[k].confidence_score] = <<95, 70, 40>>
        /\ rq[r].result.confidence_summary
              = [high |-> 1, medium |-> 1, low |-> 1]

\* C4: when an analyze-pdf request has ended, on any path, no temporary file
\* it created is left on disk.
C4_NoTempFileLeft ==
    \A r \in Reqs :
        (rq[r].kind = "analyze_pdf" /\ rq[r].pc = "done" /\ rq[r].created # 0)
            => tmpfiles[rq[r].created] = "unlinked"

\* C8: a client belongs to one run only; a call in flight is on a client that
\* is open, and is the run's own; a run that has ended has closed the client
\* it constructed, whether it succeeded or failed.
C8_ClientClosedOnEveryPath ==
    /\ \A r \in Reqs :
          /\ rq[r].client \in 0..Len(clients)
          /\ rq[r].inflight # <<>> =>
                /\ rq[r].client # 0
                /\ clients[rq[r].client] = "open"
          /\ \A k \in 1..Len(rq[r].calls) :
                rq[r].calls[k].client = rq[r].client
          /\ (rq[r].pc = "done" /\ rq[r].client # 0) =>
                clients[rq[r].client] = "closed"
    /\ \A r1, r2 \in Reqs :
          (r1 # r2 /\ rq[r1].client # 0) => rq[r1].client # rq[r2].client
    /\ \A c \in 1..Len(clients) : \E r \in Reqs : rq[r].client = c

\* C8 witness: a request whose remote call raised has ended with its client
\* closed, while another request has a call in flight on its own client.
C8_Witness ==
    \E r1, r2 \in Reqs :
        /\ Http(r1) /\ rq[r1].pc = "done" /\ rq[r1].status = 500
        /\ rq[r1].calls # <<>>
        /\ clients[rq[r1].client] = "closed"
        /\ Http(r2) /\ rq[r2].inflight # <<>>

\* C9: once the extraction is over, on any path, the PDF document it opened
\* is closed.
C9_DocumentReleased ==
    \A r \in Reqs : rq[r].doc # "open"

\* C10 as claimed: in every run that sends the chunks of a text, each call
\* carries exactly one chunk, the calls follow the order of the chunks, at
\* most one is in flight, the next is sent only when the one before has
\* returned, and a run in which no call raised made one call per chunk.
C10_OneChunkPerCall ==
    \A r \in Reqs :
        rq[r].chunks # <<>> =>
            /\ Len(rq[r].inflight) <= 1
            /\ Len(rq[r].calls) = Len(rq[r].responses) + Len(rq[r].inflight)
                                     + (IF rq[r].raised THEN 1 ELSE 0)
            /\ \A k \in 1..Len(rq[r].calls) :
                   rq[r].calls[k].documents = <<rq[r].chunks[k]>>
            /\ (rq[r].pc \in {"closing", "done"} /\ ~rq[r].raised) =>
                   Len(rq[r].calls) = Len(rq[r].chunks)

\* C10 amended: the above holds in every request of the HTTP service; the
\* command-line script sends one call that carries all the chunks.
C10_OneChunkPerCallInRequests ==
    \A r \in Reqs :
        /\ Http(r) =>
              /\ Len(rq[r].inflight) <= 1
              /\ Len(rq[r].calls) = Len(rq[r].responses) + Len(rq[r].inflight)
                                       + (IF rq[r].calls # <<>> /\ rq[r].raised
                                          THEN 1 ELSE 0)
              /\ Len(rq[r].responses) = rq[r].i
              /\ \A k \in 1..Len(rq[r].calls) :
                     rq[r].calls[k].documents = <<rq[r].chunks[k]>>
              /\ rq[r].inflight # <<>> =>
                     rq[r].inflight[1] = <<rq[r].chunks[rq[r].i + 1]>>
              /\ rq[r].status = 200 => Len(rq[r].calls) = Len(rq[r].chunks)
        /\ (rq[r].kind = "cli" /\ rq[r].chunks # <<>>) =>
              /\ Len(rq[r].calls) = 1
              /\ rq[r].calls[1].documents = rq[r].chunks
              /\ Len(rq[r].inflight) <= 1

\* C10 witness: a request for a PDF of two pages has its fourth call in
\* flight, the three before having returned.
C10_Witness ==
    \E r \in Reqs :
        /\ rq[r].kind = "analyze_pdf"
        /\ Len(rq[r].chunks) >= 4
        /\ Len(rq[r].calls) = 4
        /\ Len(rq[r].responses) = 3
        /\ rq[r].inflight = <<<<rq[r].chunks[4]>>>>

====
